---- MODULE Spec2Model ----
(***************************************************************************)
(* Model of the time_machine skill (skills/time_machine): the TimeMachine  *)
(* orchestrator (tm.py) with its git and dvc back ends, the file lock, the *)
(* command executor and the audit logger.                                  *)
(*                                                                         *)
(* Text is modelled as a sequence of one-character strings, so that the    *)
(* slicing, stripping and splitting the code does on command output and on *)
(* commit messages is computed, not assumed.  "<RS>" and "<US>" stand for  *)
(* the bytes 0x1e and 0x1f.  An absent value (Python's None) is the text   *)
(* None below.                                                             *)
(***************************************************************************)
EXTENDS Naturals, Sequences, FiniteSets, TLC

\* ------------------------------------------------------------------ text

None == <<"<None>">>

RS == "<RS>"
US == "<US>"

\* str.isspace(): Python counts the separators 0x1c..0x1f as white space.
IsSpace(c) == c \in {" ", "\n", "\t", "\r", RS, US}

SetMin(S) == CHOOSE x \in S : \A y \in S : x <= y

SetMax(S) == CHOOSE x \in S : \A y \in S : y <= x

\* str.strip(): cut at the first and the last character that is not white space
Strip(s) ==
    LET solid == {i \in 1..Len(s) : ~IsSpace(s[i])}
    IN IF solid = {} THEN <<>> ELSE SubSeq(s, SetMin(solid), SetMax(solid))

\* str.lstrip()
LStrip(s) ==
    LET solid == {i \in 1..Len(s) : ~IsSpace(s[i])}
    IN IF solid = {} THEN <<>> ELSE SubSeq(s, SetMin(solid), Len(s))

\* str.rstrip()
RStrip(s) ==
    LET solid == {i \in 1..Len(s) : ~IsSpace(s[i])}
    IN IF solid = {} THEN <<>> ELSE SubSeq(s, 1, SetMax(solid))

\* s[n:]
DropFirst(s, n) == SubSeq(s, n + 1, Len(s))

\* str.startswith(prefix)
StartsWith(s, prefix) ==
    Len(s) >= Len(prefix) /\ SubSeq(s, 1, Len(prefix)) = prefix

\* str.find(sub, i), 1-based; 0 when sub does not occur at or after i
FindSub(s, sub, i) ==
    LET hits == {k \in i..(Len(s) + 1 - Len(sub)) : SubSeq(s, k, k + Len(sub) - 1) = sub}
    IN IF hits = {} THEN 0 ELSE SetMin(hits)

\* str.split(sep): every piece, empty ones included
RECURSIVE Split(_, _)
Split(s, sep) ==
    LET k == FindSub(s, sep, 1)
    IN IF k = 0 THEN <<s>>
       ELSE <<SubSeq(s, 1, k - 1)>> \o Split(DropFirst(s, k + Len(sep) - 1), sep)

\* str.split(sep, 1): <<before, after>>, or <<s>> when sep does not occur
SplitOnce(s, sep) ==
    LET k == FindSub(s, sep, 1)
    IN IF k = 0 THEN <<s>>
       ELSE <<SubSeq(s, 1, k - 1), DropFirst(s, k + Len(sep) - 1)>>

\* str.partition(sep): <<before, after>>; after is empty when sep is absent
Partition(s, sep) ==
    LET k == FindSub(s, sep, 1)
    IN IF k = 0 THEN <<s, <<>>>>
       ELSE <<SubSeq(s, 1, k - 1), DropFirst(s, k + Len(sep) - 1)>>

\* str.splitlines(): no empty last line for a trailing line break
SplitLines(s) ==
    IF s = <<>> THEN <<>>
    ELSE LET parts == Split(s, <<"\n">>)
         IN IF parts[Len(parts)] = <<>> THEN SubSeq(parts, 1, Len(parts) - 1)
            ELSE parts

\* str.split(): the white-space separated words
RECURSIVE Words(_)
Words(s) ==
    LET t == LStrip(s)
        gaps == {i \in 1..Len(t) : IsSpace(t[i])}
        e == IF gaps = {} THEN Len(t) ELSE SetMin(gaps) - 1
    IN IF t = <<>> THEN <<>>
       ELSE <<SubSeq(t, 1, e)>> \o Words(DropFirst(t, e))

\* sep.join(parts)
RECURSIVE Join(_, _)
Join(parts, sep) ==
    IF parts = <<>> THEN <<>>
    ELSE IF Len(parts) = 1 THEN parts[1]
    ELSE parts[1] \o sep \o Join(Tail(parts), sep)

\* path.split("/")[0]
TopLevel(path) == Split(path, <<"/">>)[1]

\* The characters the model uses, in code-point order.
Ascii ==
    <<"\t", "\n", "\r", "<RS>", "<US>", " ", "\"", ",", "-", ".", "/",
      "0", "1", "2", "3", "4", "5", "6", "7", "8", "9", ":", ">", "?",
      "A", "D", "M", "N", "R", "T", "[", "\\", "]", "_",
      "a", "b", "c", "d", "e", "f", "g", "h", "i", "j", "k", "l", "m",
      "n", "o", "p", "q", "r", "s", "t", "u", "v", "w", "x", "y", "z",
      "{", "|", "}">>

\* ord(c), up to an order-preserving renumbering
Rank(c) == CHOOSE i \in 1..Len(Ascii) : Ascii[i] = c

RECURSIVE TextLess(_, _)
TextLess(a, b) ==
    IF b = <<>> THEN FALSE
    ELSE IF a = <<>> THEN TRUE
    ELSE IF Rank(Head(a)) # Rank(Head(b)) THEN Rank(Head(a)) < Rank(Head(b))
    ELSE TextLess(Tail(a), Tail(b))

\* sorted(set(...)): the texts of a set in increasing order
RECURSIVE SortedSeq(_)
SortedSeq(S) ==
    IF S = {} THEN <<>>
    ELSE LET m == CHOOSE x \in S : \A y \in S \ {x} : TextLess(x, y)
         IN <<m>> \o SortedSeq(S \ {m})

SeqToSet(q) == {q[i] : i \in 1..Len(q)}

\* ------------------------------------------------------------------ json

\* json.dumps of a str (ensure_ascii=False): quotes and backslashes escaped
\* An escaping that leaves the double quote as it is.
RECURSIVE JsonEscapeNoQuote(_)
JsonEscapeNoQuote(s) ==
    IF s = <<>> THEN <<>>
    ELSE LET c == Head(s)
         IN (CASE c = "\\" -> <<"\\", "\\">>
               [] c = "\n" -> <<"\\", "n">>
               [] c = "\t" -> <<"\\", "t">>
               [] OTHER -> <<c>>) \o JsonEscapeNoQuote(Tail(s))

RECURSIVE JsonEscape(_)
JsonEscape(s) ==
    IF s = <<>> THEN <<>>
    ELSE LET c == Head(s)
         IN (CASE c = "\"" -> <<"\\", "\"">>
               [] c = "\\" -> <<"\\", "\\">>
               [] c = "\n" -> <<"\\", "n">>
               [] c = "\t" -> <<"\\", "t">>
               [] OTHER -> <<c>>) \o JsonEscape(Tail(s))

JsonString(s) == <<"\"">> \o JsonEscape(s) \o <<"\"">>

\* json.dumps of a list of str
JsonList(items) ==
    <<"[">> \o Join([i \in 1..Len(items) |-> JsonString(items[i])], <<",", " ">>)
            \o <<"]">>

\* json.loads white space
IsJsonWs(c) == c \in {" ", "\n", "\t", "\r"}

RECURSIVE SkipWs(_, _)
SkipWs(s, i) == IF i <= Len(s) /\ IsJsonWs(s[i]) THEN SkipWs(s, i + 1) ELSE i

Bad == [ok |-> FALSE, kind |-> "none", val |-> <<>>, next |-> 0]

\* The characters of a JSON string whose opening quote is at i - 1.
RECURSIVE ScanString(_, _, _)
ScanString(s, i, acc) ==
    IF i > Len(s) THEN Bad
    ELSE IF s[i] = "\"" THEN [ok |-> TRUE, kind |-> "str", val |-> acc, next |-> i + 1]
    ELSE IF s[i] \in {"\n", "\t", "\r", RS, US} THEN Bad
    ELSE IF s[i] = "\\" THEN
        IF i + 1 > Len(s) THEN Bad
        ELSE IF s[i + 1] \in {"\"", "\\", "/"} THEN ScanString(s, i + 2, Append(acc, s[i + 1]))
        ELSE IF s[i + 1] = "n" THEN ScanString(s, i + 2, Append(acc, "\n"))
        ELSE IF s[i + 1] = "t" THEN ScanString(s, i + 2, Append(acc, "\t"))
        ELSE Bad
    ELSE ScanString(s, i + 1, Append(acc, s[i]))

\* The items of a JSON list of strings whose "[" is at i - 1.
RECURSIVE ScanList(_, _, _)
ScanList(s, i, acc) ==
    LET j == SkipWs(s, i)
    IN IF j > Len(s) THEN Bad
       ELSE IF s[j] = "]" /\ acc = <<>> THEN
           [ok |-> TRUE, kind |-> "list", val |-> acc, next |-> j + 1]
       ELSE IF s[j] # "\"" THEN Bad
       ELSE LET item == ScanString(s, j + 1, <<>>)
                k == SkipWs(s, item.next)
            IN IF ~item.ok \/ k > Len(s) THEN Bad
               ELSE IF s[k] = "," THEN ScanList(s, k + 1, Append(acc, item.val))
               ELSE IF s[k] = "]" THEN
                   [ok |-> TRUE, kind |-> "list", val |-> Append(acc, item.val),
                    next |-> k + 1]
               ELSE Bad

\* A JSON value at i: a string or a list of strings.
ScanValue(s, i) ==
    IF i > Len(s) THEN Bad
    ELSE IF s[i] = "\"" THEN ScanString(s, i + 1, <<>>)
    ELSE IF s[i] = "[" THEN ScanList(s, i + 1, <<>>)
    ELSE Bad

\* The members of a JSON object whose "{" is at i - 1, as <<key, value>> pairs.
RECURSIVE ScanMembers(_, _, _)
ScanMembers(s, i, acc) ==
    LET j == SkipWs(s, i)
    IN IF j > Len(s) \/ s[j] # "\"" THEN Bad
       ELSE LET key == ScanString(s, j + 1, <<>>)
                c == SkipWs(s, key.next)
            IN IF ~key.ok \/ c > Len(s) \/ s[c] # ":" THEN Bad
               ELSE LET v == ScanValue(s, SkipWs(s, c + 1))
                        k == SkipWs(s, v.next)
                        got == Append(acc, <<key.val, v>>)
                    IN IF ~v.ok \/ k > Len(s) THEN Bad
                       ELSE IF s[k] = "," THEN ScanMembers(s, k + 1, got)
                       ELSE IF s[k] = "}" THEN
                           [ok |-> TRUE, kind |-> "dict", val |-> got, next |-> k + 1]
                       ELSE Bad

\* json.loads(text) of an object; ok is FALSE where it raises JSONDecodeError
JsonLoads(text) ==
    LET i == SkipWs(text, 1)
    IN IF i > Len(text) \/ text[i] # "{" THEN Bad
       ELSE LET obj == ScanMembers(text, i + 1, <<>>)
            IN IF obj.ok /\ SkipWs(text, obj.next) > Len(text) THEN obj ELSE Bad

\* payload.get(key): the value of the last member named key, else None
DictGet(pairs, key) ==
    LET hits == {i \in 1..Len(pairs) : pairs[i][1] = key}
    IN IF hits = {} THEN None
       ELSE pairs[CHOOSE i \in hits : \A j \in hits : j <= i][2].val

\* --------------------------------------------------------- configuration

Normal == <<"n", "o", "r", "m", "a", "l">>
High == <<"h", "i", "g", "h">>
Critical == <<"c", "r", "i", "t", "i", "c", "a", "l">>

\* The levels the command line accepts.
Levels == {Normal, High, Critical}

\* config["protected_paths"]
ProtectedDirs == {<<"c", "o", "n", "f", "i", "g">>}

\* config["risk_levels"].get(level, "")
RiskNote(level) ==
    IF level = Critical THEN <<"i", "r", "r", "e", "v", "e", "r", "s", "i", "b", "l", "e">>
    ELSE IF level = High THEN <<"r", "i", "s", "k", "y">>
    ELSE IF level = Normal THEN <<"r", "o", "u", "t", "i", "n", "e">>
    ELSE <<>>

\* config["list_limit"]
ListLimit == 2

\* config["verification"]["required_paths"]
RequiredPaths == {<<"c", "o", "n", "f", "i", "g", "/", "a", "p", "p">>}

\* ---------------------------------------------------------- snapshot ids

\* time.strftime("%Y%m%d-%H%M%S"): the second in which the model's calls fall
Timestamp == <<"2", "0", "2", "6", "1", "1", "0", "6", "-", "0", "3", "0", "5", "0", "1">>

\* random.choices(lowercase + digits, k=4): the suffixes the model draws from
RandSuffixes == {<<"a", "a", "a", "a">>, <<"a", "a", "a", "b">>}

\* generate_snapshot_id with the random suffix rand
SnapshotIdOf(rand) == Timestamp \o <<"-">> \o rand


\* ------------------------------------------------------ commit messages

EnvelopeMarker == <<"T", "i", "m", "e", "M", "a", "c", "h", "i", "n", "e", " ", "s", "n", "a", "p", "s", "h", "o", "t">>

NoReasonProvided == <<"N", "o", " ", "r", "e", "a", "s", "o", "n", " ", "p", "r", "o", "v", "i", "d", "e", "d">>

\* Python truth of an optional str: None and "" are false
Truthy(text) == text # None /\ text # <<>>

\* TimeMachine._build_commit_message
BuildCommitMessage(snapshot_id, level, reason, changed_paths) ==
    LET reason_text == IF Truthy(reason) THEN reason ELSE NoReasonProvided
        body == <<"{", "\"", "r", "e", "a", "s", "o", "n", "\"", ":", " ">> \o JsonString(reason_text)
                \o <<",", " ", "\"", "c", "h", "a", "n", "g", "e", "d", "_", "p", "a", "t", "h", "s", "\"", ":", " ">> \o JsonList(changed_paths)
                \o <<",", " ", "\"", "r", "i", "s", "k", "\"", ":", " ">> \o JsonString(RiskNote(level)) \o <<"}">>
    IN EnvelopeMarker \o <<" ">> \o snapshot_id \o <<" ", "[">> \o level
       \o <<"]", "\n", "\n">> \o body

\* The lines of a message after git's clean-up of a -m message: trailing white
\* space cut from every line, runs of empty lines cut to one.
RECURSIVE SqueezeLines(_, _)
SqueezeLines(lines, prevEmpty) ==
    IF lines = <<>> THEN <<>>
    ELSE LET l == RStrip(Head(lines))
         IN IF l = <<>> /\ prevEmpty THEN SqueezeLines(Tail(lines), TRUE)
            ELSE <<l>> \o SqueezeLines(Tail(lines), l = <<>>)

RECURSIVE DropEmptyTail(_)
DropEmptyTail(lines) ==
    IF lines # <<>> /\ lines[Len(lines)] = <<>>
    THEN DropEmptyTail(SubSeq(lines, 1, Len(lines) - 1))
    ELSE lines

\* What git commit -m message stores: the cleaned lines, each ended by "\n".
GitStoredMessage(message) ==
    LET lines == DropEmptyTail(SqueezeLines(Split(message, <<"\n">>), TRUE))
    IN Join(lines, <<"\n">>) \o <<"\n">>

Digits == <<"0", "1", "2", "3", "4", "5", "6", "7", "8", "9">>

\* The hash git prints for the n-th commit of the repository (%H, rev-parse)
HashText(n) == <<"h", Digits[n + 1]>>

\* git log --pretty=format:%H%x1f%B%x1e over the given <<hash, message>>
\* pairs, newest first: entries are separated by a line break.
GitLogFormat(entries) ==
    Join([i \in 1..Len(entries) |->
            entries[i][1] \o <<US>> \o entries[i][2] \o <<RS>>], <<"\n">>)

\* run_cmd(...).stdout: the captured output, stripped
RunCmdStdout(raw) == Strip(raw)

\* tag.split("/", 1): <<prefix, snapshot_id>>
TagParts(tag) == SplitOnce(tag, <<"/">>)

\* TimeMachine._tags_by_snapshot: the tags of each snapshot id, as a set of
\* <<snapshot_id, tag>> pairs kept in the order of the tag list
TagsBySnapshot(tags, snapshot_id) ==
    LET RECURSIVE Pick(_)
        Pick(rest) ==
            IF rest = <<>> THEN <<>>
            ELSE IF FindSub(Head(rest), <<"/">>, 1) # 0
                    /\ TagParts(Head(rest))[2] = snapshot_id
                 THEN <<Head(rest)>> \o Pick(Tail(rest))
                 ELSE Pick(Tail(rest))
    IN Pick(tags)

\* text.rstrip(c)
RStripChar(text, c) ==
    LET solid == {i \in 1..Len(text) : text[i] # c}
    IN IF solid = {} THEN <<>> ELSE SubSeq(text, 1, SetMax(solid))

\* The header of a snapshot message: what precedes the first empty line
MessageHeader(message) == Partition(message, <<"\n", "\n">>)[1]

\* header.split()[2]
HeaderSnapshotId(header) == Words(header)[3]

\* header.split("[")[-1].rstrip("]")
HeaderLevel(header) ==
    LET bracket == Split(header, <<"[">>)
    IN RStripChar(bracket[Len(bracket)], "]")

\* One record of the log output, parsed as in _collect_snapshots; skip is
\* TRUE for a record the loop passes over.
ParseLogRecord(record, tags) ==
    LET parts == SplitOnce(record, <<US>>)
        commit_hash == parts[1]
        message == parts[2]
        hb == Partition(message, <<"\n", "\n">>)
        header == MessageHeader(message)
        body == hb[2]
        snapshot_id == HeaderSnapshotId(header)
        level == HeaderLevel(header)
        payload == JsonLoads(body)
        reason == IF body # <<>> /\ payload.ok THEN DictGet(payload.val, <<"r", "e", "a", "s", "o", "n">>)
                  ELSE None
    IN IF Strip(record) = <<>> \/ ~StartsWith(message, EnvelopeMarker)
       THEN [skip |-> TRUE]
       ELSE [skip |-> FALSE,
             snapshot_id |-> snapshot_id,
             time |-> Split(snapshot_id, <<"-">>)[1],
             level |-> level,
             reason |-> reason,
             tags |-> TagsBySnapshot(tags, snapshot_id),
             git_commit |-> commit_hash]

\* The loop of _collect_snapshots from record i on
RECURSIVE CollectFrom(_, _, _)
CollectFrom(records, tags, i) ==
    IF i > Len(records) THEN <<>>
    ELSE IF ParseLogRecord(records[i], tags).skip THEN CollectFrom(records, tags, i + 1)
    ELSE <<ParseLogRecord(records[i], tags)>> \o CollectFrom(records, tags, i + 1)

\* TimeMachine._collect_snapshots over the output of git log
CollectSnapshots(log_output, tags) == CollectFrom(Split(log_output, <<RS>>), tags, 1)

\* ------------------------------------------------------------ repository

\* The files of the working directory the model follows: a top-level file, a
\* file under the protected directory config, a file under the data root models.
PathA == <<"a">>
PathConfig == <<"c", "o", "n", "f", "i", "g", "/", "a", "p", "p">>
PathModel == <<"m", "o", "d", "e", "l", "s", "/", "m">>

Files == {PathA, PathConfig, PathModel}

\* A file's content is a version number; 0 is "no such file".
MaxContent == 2

Contents == 0..MaxContent

\* The contents the user gives a file: the plain file is rewritten, the
\* configuration file is rewritten or deleted, the model file is created.
FileContents(f) ==
    IF f = PathA THEN Contents \ {0}
    ELSE IF f = PathModel THEN {c \in Contents : c <= 1}
    ELSE Contents

\* The tree of the commit the test fixtures start from ("init").
FirstTree == [f \in Files |-> IF f = PathModel THEN 0 ELSE 1]

InitMessage == <<"i", "n", "i", "t", "\n">>

\* The tree of a second plain commit, which rewrites the plain file: the
\* history the operations start from has a version older than HEAD.
InitTree == [FirstTree EXCEPT ![PathA] = MaxContent]

UpdateMessage == <<"u", "p", "d", "a", "t", "e", "\n">>

\* The data-tracking environments: whether dvc is available and initialised,
\* whether a remote is configured, and config["dvc"]["remote_optional"].
DvcEnvs ==
    {[ready |-> FALSE, remote |-> FALSE, optional |-> TRUE],
     [ready |-> TRUE, remote |-> FALSE, optional |-> TRUE],
     [ready |-> TRUE, remote |-> TRUE, optional |-> FALSE]}

Procs == {1, 2}

\* Bounds of the exploration: invocations, user edits, injected failures of
\* external commands and of audit writes.
MaxOps == 2
MaxEdits == 1
MaxFaults == 1

VARIABLES
    commits,     \* git history: <<[tree, parent, msg]>>, a commit is its index
    head,        \* the commit HEAD points at
    tags,        \* git tags: {[name, commit]}
    index,       \* git index: file -> content
    wt,          \* working tree: file -> content
    dvcAdded,    \* roots handed to dvc add
    dvcPushes,   \* number of dvc push runs
    dvcEnv,      \* the data-tracking environment, an element of DvcEnvs
    lockHolder,  \* the process holding the flock on lock_path, 0 when free
    proc,        \* per process: the invocation it runs and its locals
    auditLog,    \* the audit records written, in order
    faults,      \* failures injected so far
    edits,       \* user edits so far
    calls,       \* invocations started so far
    rt,          \* the round-trip specification's state
    workload     \* "serial": one caller at a time; "concurrent": overlapping callers

vars ==
    <<commits, head, tags, index, wt, dvcAdded, dvcPushes, dvcEnv, lockHolder,
      proc, auditLog, faults, edits, calls, rt, workload>>

Repo == <<commits, head, tags, index, wt, dvcAdded, dvcPushes>>

HeadTree == commits[head].tree

\* ----------------------------------------------------------- git status

\* The XY code of a tracked path in git status --porcelain; "  " when clean.
StatusXY(h, i, w) ==
    <<IF i = h THEN " " ELSE IF h = 0 THEN "A" ELSE IF i = 0 THEN "D" ELSE "M",
      IF i = 0 \/ w = i THEN " " ELSE IF w = 0 THEN "D" ELSE "M">>

HasTrackedEntry(f) ==
    /\ index[f] # 0 \/ HeadTree[f] # 0
    /\ StatusXY(HeadTree[f], index[f], wt[f]) # <<" ", " ">>

IsUntracked(f) == index[f] = 0 /\ wt[f] # 0

\* git shows an untracked file as its directory when nothing under that
\* directory is in the index.
UntrackedName(f) ==
    IF FindSub(f, <<"/">>, 1) # 0
       /\ \A g \in Files : TopLevel(g) = TopLevel(f) => index[g] = 0
    THEN TopLevel(f) \o <<"/">>
    ELSE f

\* The file has an uncommitted change: git status lists it.
FileChanged(f) == HasTrackedEntry(f) \/ IsUntracked(f)

StatusLine(xy, name) == xy \o <<" ">> \o name \o <<"\n">>

\* stdout of git status --porcelain: the tracked entries by path, then the
\* untracked ones by path.
\* The lock file and the audit directory are out of git's sight here (ignored,
\* or configured outside the working tree).
GitStatusRaw ==
    LET tracked == SortedSeq({f \in Files : HasTrackedEntry(f)})
        untracked == SortedSeq({UntrackedName(f) : f \in {g \in Files : IsUntracked(g)}})
    IN Join([k \in 1..Len(tracked) |->
               StatusLine(StatusXY(HeadTree[tracked[k]], index[tracked[k]],
                                   wt[tracked[k]]), tracked[k])], <<>>)
       \o Join([k \in 1..Len(untracked) |->
                  StatusLine(<<"?", "?">>, untracked[k])], <<>>)

\* GitBackend.status: run_cmd strips the captured output
GitStatus == RunCmdStdout(GitStatusRaw)

\* One line of the status output as _parse_changed_paths reads it
ParseStatusLine(line) ==
    LET path == DropFirst(line, 3)
    IN IF FindSub(path, <<"-", ">">>, 1) # 0
       THEN LET parts == Split(path, <<"-", ">">>) IN Strip(parts[Len(parts)])
       ELSE path

\* TimeMachine._parse_changed_paths
ParseChangedPaths(status_output) ==
    LET lines == SplitLines(status_output)
    IN SortedSeq({ParseStatusLine(lines[k]) : k \in {j \in 1..Len(lines) : lines[j] # <<>>}})

\* TimeMachine._protected_paths_touched
ProtectedPathsTouched(changed_paths) ==
    {path \in SeqToSet(changed_paths) : TopLevel(path) \in ProtectedDirs}

\* The gate of snapshot: "if protected_hits and not reason"
ProtectedGate(protected_hits, reason) == protected_hits # {} /\ ~Truthy(reason)

\* A gate that fires on force instead of on its absence.
DirtyGateInverted(status_output, force) == status_output # <<>> /\ force

\* The gate of restore: "if status_output and not force"
DirtyGate(status_output, force) == status_output # <<>> /\ ~force

DataRoots == {<<"m", "o", "d", "e", "l", "s">>, <<"d", "a", "t", "a", "_", "s", "n", "a", "p", "s", "h", "o", "t", "s">>}

\* TimeMachine._needs_dvc
NeedsDvc(changed_paths) ==
    \E path \in SeqToSet(changed_paths) : TopLevel(path) \in DataRoots

\* (repo_path / root).exists(): some file lies under the directory
DirExists(root) == \E f \in Files : TopLevel(f) = root /\ f # root /\ wt[f] # 0

\* TimeMachine._dvc_add_paths, given the roots that exist as directories
DvcAddRootsOf(changed_paths, existing) ==
    {root \in DataRoots :
        /\ \E path \in SeqToSet(changed_paths) : StartsWith(path, root)
        /\ root \in existing}

\* TimeMachine._dvc_add_paths: the roots it hands to dvc add
DvcAddRoots(changed_paths) ==
    DvcAddRootsOf(changed_paths, {root \in DataRoots : DirExists(root)})

\* ------------------------------------------------------- git tag and log

TagNames == {tg.name : tg \in tags}

PreChangeTag(snapshot_id) == <<"p", "r", "e", "-", "c", "h", "a", "n", "g", "e", "/">> \o snapshot_id
StableTag(snapshot_id) == <<"s", "t", "a", "b", "l", "e", "/">> \o snapshot_id

\* GitBackend.tags: git tag --list prints the names in order
GitTagList == SortedSeq(TagNames)

\* The commits git log -n limit walks: HEAD and its ancestors, newest first.
RECURSIVE Ancestry(_, _)
Ancestry(c, limit) ==
    IF c = 0 \/ limit = 0 THEN <<>>
    ELSE <<c>> \o Ancestry(commits[c].parent, limit - 1)

\* GitBackend.log(limit)
GitLog(limit) ==
    LET walk == Ancestry(head, limit)
    IN RunCmdStdout(GitLogFormat([k \in 1..Len(walk) |->
                                    <<HashText(walk[k]), commits[walk[k]].msg>>]))

\* The commit a revision names: a commit hash or a tag; 0 when git cannot
\* resolve it.
ResolveRev(version) ==
    IF \E n \in 1..Len(commits) : HashText(n) = version
    THEN CHOOSE n \in 1..Len(commits) : HashText(n) = version
    ELSE IF version \in TagNames
    THEN (CHOOSE tg \in tags : tg.name = version).commit
    ELSE 0

\* The revisions an operator may pass to restore and diff.
Versions == {HashText(n) : n \in 1..Len(commits)} \cup TagNames

\* ------------------------------------------------------------ git checkout

\* git checkout of a commit whose tree holds t for a path with h in HEAD, i in
\* the index and w in the working tree: does git refuse to switch?
CheckoutRefuses(h, i, w, t) ==
    IF h = t THEN FALSE
    ELSE IF i = t THEN i = 0 /\ w # 0
    ELSE IF i = h THEN (IF i = 0 THEN w # 0 ELSE w # i /\ w # 0)
    ELSE TRUE

\* Whether the checkout rewrites the path (index and working tree take t).
CheckoutRewrites(h, i, w, t) == h # t /\ i # t

\* GitBackend.checkout(target): git checkout without --force
GitCheckoutOk(target) ==
    /\ target # 0
    /\ \A f \in Files :
          ~CheckoutRefuses(HeadTree[f], index[f], wt[f], commits[target].tree[f])

IndexAfterCheckout(target) ==
    [f \in Files |->
        IF CheckoutRewrites(HeadTree[f], index[f], wt[f], commits[target].tree[f])
        THEN commits[target].tree[f] ELSE index[f]]

TreeAfterCheckout(target) ==
    [f \in Files |->
        IF CheckoutRewrites(HeadTree[f], index[f], wt[f], commits[target].tree[f])
        THEN commits[target].tree[f] ELSE wt[f]]

\* --------------------------------------------------------------- git diff

\* Key directories that take in the data directory as well.
KeyDirsWithModels ==
    {<<"c", "o", "n", "f", "i", "g">>, <<"s", "c", "r", "i", "p", "t", "s">>,
     <<"p", "o", "l", "i", "c", "i", "e", "s">>, <<"m", "o", "d", "e", "l", "s">>}

KeyDirs == {<<"c", "o", "n", "f", "i", "g">>, <<"s", "c", "r", "i", "p", "t", "s">>, <<"p", "o", "l", "i", "c", "i", "e", "s">>}

\* The files git treats as binary.
BinaryFiles == {PathModel}

\* GitBackend.diff_names(a, b) for the commits a and b
DiffNames(a, b) == SortedSeq({f \in Files : commits[a].tree[f] # commits[b].tree[f]})

\* GitBackend.diff_shortstat(a, b): empty when nothing differs
DiffShortstat(a, b) ==
    LET n == Len(DiffNames(a, b))
    IN RunCmdStdout(IF n = 0 THEN <<>>
                    ELSE <<" ", Digits[n + 1]>> \o <<" ", "c", "h", "a", "n", "g", "e", "d">> \o <<"\n">>)

NumstatLine(f) ==
    (IF f \in BinaryFiles THEN <<"-", "\t", "-", "\t">> ELSE <<"1", "\t", "1", "\t">>)
    \o f \o <<"\n">>

\* GitBackend.diff_numstat(a, b): the stripped, non-empty lines
DiffNumstat(a, b) ==
    LET names == DiffNames(a, b)
        out == RunCmdStdout(Join([k \in 1..Len(names) |-> NumstatLine(names[k])], <<>>))
        lines == SplitLines(out)
    IN SelectSeq([k \in 1..Len(lines) |-> Strip(lines[k])], LAMBDA l : l # <<>>)

\* GitBackend.diff_stat(a, b)
DiffStat(a, b) ==
    LET names == DiffNames(a, b)
    IN RunCmdStdout(Join([k \in 1..Len(names) |-> <<" ">> \o names[k] \o <<" ", "|", "\n">>],
                         <<>>) \o <<" ">> \o DiffShortstat(a, b))

NoDifferences == <<"N", "o", " ", "d", "i", "f", "f", "e", "r", "e", "n", "c", "e", "s", ".">>

\* The result TimeMachine.diff builds
DiffResult(version_a, version_b) ==
    LET a == ResolveRev(version_a)
        b == ResolveRev(version_b)
        names == DiffNames(a, b)
        numstat == DiffNumstat(a, b)
        binary == SelectSeq(numstat, LAMBDA l : StartsWith(l, <<"-", "\t", "-">>))
    IN [version_a |-> version_a,
        version_b |-> version_b,
        key_changes |-> SelectSeq(names, LAMBDA q : TopLevel(q) \in KeyDirs),
        summary |-> IF DiffShortstat(a, b) # <<>> THEN DiffShortstat(a, b)
                    ELSE NoDifferences,
        diff_stat |-> DiffStat(a, b),
        binary_files |-> [k \in 1..Len(binary) |->
                            LET cols == Split(binary[k], <<"\t">>) IN cols[Len(cols)]]]

\* ------------------------------------------------------------------ list

FilterAll == <<"a", "l", "l">>
FilterStable == <<"s", "t", "a", "b", "l", "e">>
FilterPreChange == <<"p", "r", "e", "-", "c", "h", "a", "n", "g", "e">>
FilterExperiment == <<"e", "x", "p", "e", "r", "i", "m", "e", "n", "t">>

\* The filters the command line accepts.
Filters == {FilterAll, FilterStable, FilterPreChange, FilterExperiment}

\* A filter that looks at the first tag of an entry only.
FilterEntriesFirstTag(entries, filter) ==
    IF filter = FilterAll THEN entries
    ELSE SelectSeq(entries,
                   LAMBDA e : e.tags # <<>> /\ StartsWith(e.tags[1], filter \o <<"/">>))

\* TimeMachine._filter_entries
FilterEntries(entries, filter) ==
    IF filter = FilterAll THEN entries
    ELSE IF filter \in {FilterStable, FilterPreChange, FilterExperiment}
    THEN SelectSeq(entries,
                   LAMBDA e : \E k \in 1..Len(e.tags) :
                                 StartsWith(e.tags[k], filter \o <<"/">>))
    ELSE entries

\* entries[:limit]
Truncate(entries, limit) ==
    SubSeq(entries, 1, IF Len(entries) < limit THEN Len(entries) ELSE limit)

\* The result TimeMachine.list builds from the tag list and the log output
ListResult(tag_list, log_output, filter) ==
    [snapshots |-> Truncate(FilterEntries(CollectSnapshots(log_output, tag_list), filter),
                            ListLimit)]

\* ------------------------------------------------------------- processes

NoError == [kind |-> "none", cmd |-> "none"]

NoArgs ==
    [reason |-> None, level |-> None, version |-> None, verify |-> FALSE,
     force |-> FALSE, filter |-> None, version_a |-> None, version_b |-> None]

NoResult == [none |-> TRUE]

\* A process that runs no invocation.
IdleProc ==
    [pc |-> "idle", op |-> "none", args |-> NoArgs,
     status_output |-> <<>>, changed_paths |-> <<>>, snapshot_id |-> None,
     message |-> <<>>, dvc_status |-> "skipped", git_commit |-> None,
     tags |-> <<>>, tag_list |-> <<>>, verification |-> "skipped",
     result |-> NoResult,
     exc |-> NoError,        \* the exception the except branch caught
     raised |-> NoError,     \* the exception the caller receives
     outcome |-> "none",     \* "ok": returned, "raise": raised
     \* what the invocation saw and did, kept for the properties below
     sawProtected |-> FALSE, sawDirty |-> FALSE, sawModified |-> FALSE,
     mutated |-> FALSE, wrote |-> <<>>, auditLost |-> FALSE, created |-> {},
     cmds |-> <<>>,
     parsed |-> <<>>,        \* the entries list parsed from the log
     histBefore |-> 0]       \* the length of the history when the lock was taken

\* The reasons the model's callers give: none, the empty text, a text.
Reasons == {None, <<>>, <<"f", "i", "x">>}

Running(p) == proc[p].pc # "idle"

\* Idle processes are interchangeable: a call takes the first one.
FirstIdle(p) == ~Running(p) /\ \A q \in Procs : q < p => Running(q)

\* What a step leaves in the process record: the locals np, with the record
\* of the command it ran and of what it changed in the repository.
Stepped(p, np, cmd) ==
    [np EXCEPT !.mutated = @ \/ Repo' # Repo,
               !.created = @ \cup (TagNames' \ TagNames),
               !.cmds = Append(@, cmd)]

\* raise inside the try block: control goes to the except branch
Raise(rec, kind, cmd) == [rec EXCEPT !.exc = [kind |-> kind, cmd |-> cmd], !.pc = "handler"]

CanFault == faults < MaxFaults

\* ----------------------------------------------------------------- audit

\* The line a record leaves in the audit directory, kept by action and status.
LogLine(record) == [action |-> record.action, status |-> record.status]

\* The AuditRecord of a successful invocation
OkRecord(rec, result) ==
    [action |-> rec.op, actor |-> "clawbot", args |-> rec.args, result |-> result,
     status |-> "ok", error |-> NoError]

\* An except branch that records the failure as a success.
ErrorRecordAsOk(rec) ==
    [action |-> rec.op, actor |-> "clawbot", args |-> rec.args,
     result |-> [error |-> rec.exc], status |-> "ok", error |-> rec.exc]

\* The AuditRecord of the except branch: result and error carry str(exc)
ErrorRecord(rec) ==
    [action |-> rec.op, actor |-> "clawbot", args |-> rec.args,
     result |-> [error |-> rec.exc], status |-> "error", error |-> rec.exc]

\* AuditLogger.write: the file named by the record's digest is opened for
\* appending (and so created when missing) and gets the record's line.
AuditWrite(log, record) == Append(log, LogLine(record))

\* --------------------------------------------------------------- actions

\* The user changes a file of the working tree between two invocations.
Edit ==
    /\ edits < MaxEdits
    /\ workload = "serial"
    /\ calls < MaxOps
    /\ \A p \in Procs : ~Running(p)
    /\ \E f \in Files : \E c \in FileContents(f) :
          /\ wt[f] # c
          /\ wt' = [wt EXCEPT ![f] = c]
    /\ edits' = edits + 1
    /\ UNCHANGED <<commits, head, tags, index, dvcAdded, dvcPushes, dvcEnv, lockHolder,
                   proc, auditLog, faults, calls, rt, workload>>

\* A caller may start an invocation: serial callers wait for the running one.
CanCall(p) ==
    /\ calls < MaxOps
    /\ FirstIdle(p)
    /\ workload = "concurrent" \/ \A q \in Procs : ~Running(q)

\* The argument values of a call: all of them for serial callers, one for
\* concurrent callers.
ArgsFrom(all, one) == IF workload = "serial" THEN all ELSE {one}

\* A process calls TimeMachine.snapshot(reason, level).
CallSnapshot(p) ==
    /\ CanCall(p)
    /\ \E reason \in ArgsFrom(Reasons, <<"f", "i", "x">>), level \in ArgsFrom(Levels, Normal) :
          proc' = [proc EXCEPT ![p] =
                      [IdleProc EXCEPT !.pc = "lock", !.op = "snapshot",
                                       !.args = [NoArgs EXCEPT !.reason = reason,
                                                               !.level = level]]]
    /\ calls' = calls + 1
    /\ UNCHANGED <<commits, head, tags, index, wt, dvcAdded, dvcPushes, dvcEnv,
                   lockHolder, auditLog, faults, edits, rt, workload>>

\* A process calls TimeMachine.restore(version, verify, force).
CallRestore(p) ==
    /\ CanCall(p)
    /\ \E version \in Versions, verify \in ArgsFrom(BOOLEAN, FALSE),
          force \in ArgsFrom(BOOLEAN, FALSE) :
          proc' = [proc EXCEPT ![p] =
                      [IdleProc EXCEPT !.pc = "lock", !.op = "restore",
                                       !.args = [NoArgs EXCEPT !.version = version,
                                                               !.verify = verify,
                                                               !.force = force]]]
    /\ calls' = calls + 1
    /\ UNCHANGED <<commits, head, tags, index, wt, dvcAdded, dvcPushes, dvcEnv,
                   lockHolder, auditLog, faults, edits, rt, workload>>

\* A process calls TimeMachine.list(filter).
CallList(p) ==
    /\ CanCall(p)
    /\ \E filter \in ArgsFrom(Filters, FilterAll) :
          proc' = [proc EXCEPT ![p] =
                      [IdleProc EXCEPT !.pc = "l_tags", !.op = "list",
                                       !.args = [NoArgs EXCEPT !.filter = filter]]]
    /\ calls' = calls + 1
    /\ UNCHANGED <<commits, head, tags, index, wt, dvcAdded, dvcPushes, dvcEnv,
                   lockHolder, auditLog, faults, edits, rt, workload>>

\* A process calls TimeMachine.diff(version_a, version_b).
CallDiff(p) ==
    /\ CanCall(p)
    /\ \E a \in Versions, b \in ArgsFrom(Versions, HashText(head)) :
          proc' = [proc EXCEPT ![p] =
                      [IdleProc EXCEPT !.pc = "d_run", !.op = "diff",
                                       !.args = [NoArgs EXCEPT !.version_a = a,
                                                               !.version_b = b]]]
    /\ calls' = calls + 1
    /\ UNCHANGED <<commits, head, tags, index, wt, dvcAdded, dvcPushes, dvcEnv,
                   lockHolder, auditLog, faults, edits, rt, workload>>

\* A lock that is granted whoever holds it.
FlockGrantedAlways == TRUE

\* fcntl.flock(lock_file, LOCK_EX) can return: nobody holds the lock
FlockGranted == lockHolder = 0

\* file_lock: the lock file is open and flock(LOCK_EX) returns.
AcquireLock(p) ==
    /\ proc[p].pc = "lock"
    /\ FlockGranted
    /\ lockHolder' = p
    /\ UNCHANGED <<commits, head, tags, index, wt, dvcAdded, dvcPushes, dvcEnv,
                   auditLog, faults, edits, calls, rt, workload>>
    /\ proc' = [proc EXCEPT ![p] =
                   Stepped(p, [@ EXCEPT !.pc = IF proc[p].op = "snapshot" THEN "s_status"
                                                ELSE "r_status",
                                        !.histBefore = Len(commits)], "flock")]

\* The suffixes whose id some commit of the history already carries.
UsedSuffixes ==
    {r \in RandSuffixes :
        \E c \in 1..Len(commits) : FindSub(commits[c].msg, SnapshotIdOf(r), 1) # 0}

\* The suffixes generate_snapshot_id may draw: unused suffixes are
\* interchangeable, so a new one is the first unused.
DrawableSuffixes ==
    UsedSuffixes \cup
    {r \in RandSuffixes \ UsedSuffixes :
        \A q \in RandSuffixes \ UsedSuffixes : q = r \/ TextLess(r, q)}

\* What a failing external command costs: one of the injected failures.
Fault == CanFault /\ faults' = faults + 1

NoFault == faults' = faults

\* The result snapshot builds once the tags are applied and the data pushed.
SnapshotResult(rec) ==
    [snapshot_id |-> rec.snapshot_id, git_commit |-> rec.git_commit, tags |-> rec.tags,
     changed_files_summary |-> rec.changed_paths, dvc_status |-> rec.dvc_status]

\* A status inspection that stages what it finds.
StatusIndexStaged == wt

\* GitBackend.status: git status --porcelain leaves the index as it is
StatusIndex == index

\* A working tree in which a file under a protected directory has changed.
ProtectedChanged == \E f \in Files : TopLevel(f) \in ProtectedDirs /\ FileChanged(f)

\* snapshot: git status, the changed paths, the protected-path gate, the
\* snapshot id, the commit message and the decision on data tracking.
SnapStatus(p) ==
    /\ proc[p].pc = "s_status"
    /\ index' = StatusIndex
    /\ UNCHANGED <<commits, head, tags, wt, dvcAdded, dvcPushes, dvcEnv,
                   lockHolder, auditLog, edits, calls, rt, workload>>
    /\ \/ /\ Fault
          /\ proc' = [proc EXCEPT ![p] =
                         Stepped(p, Raise(@, "CommandError", "git status"), "git status")]
       \/ /\ NoFault
          /\ LET status_output == GitStatus
                 changed_paths == ParseChangedPaths(status_output)
                 protected_hits == ProtectedPathsTouched(changed_paths)
                 seen == [proc[p] EXCEPT !.status_output = status_output,
                                         !.changed_paths = changed_paths,
                                         !.sawProtected = ProtectedChanged,
                                         !.sawDirty = \E f \in Files : FileChanged(f)]
             IN IF ProtectedGate(protected_hits, proc[p].args.reason)
                THEN proc' = [proc EXCEPT ![p] =
                                Stepped(p, Raise(seen, "ProtectedPathError", "gate"),
                                        "git status")]
                ELSE \E rand \in DrawableSuffixes :
                       proc' = [proc EXCEPT ![p] =
                          Stepped(p,
                            [seen EXCEPT
                               !.snapshot_id = SnapshotIdOf(rand),
                               !.message = BuildCommitMessage(SnapshotIdOf(rand),
                                              proc[p].args.level, proc[p].args.reason,
                                              changed_paths),
                               !.dvc_status = IF NeedsDvc(changed_paths) /\ dvcEnv.ready
                                              THEN "handled" ELSE "skipped",
                               !.pc = IF NeedsDvc(changed_paths) /\ dvcEnv.ready
                                      THEN "s_dvcadd" ELSE "s_add"],
                            "git status")]

\* snapshot: _dvc_add_paths
SnapDvcAdd(p) ==
    /\ proc[p].pc = "s_dvcadd"
    /\ UNCHANGED <<commits, head, tags, index, wt, dvcPushes, dvcEnv,
                   lockHolder, auditLog, edits, calls, rt, workload>>
    /\ \/ /\ Fault
          /\ UNCHANGED dvcAdded
          /\ proc' = [proc EXCEPT ![p] =
                         Stepped(p, Raise(@, "CommandError", "dvc add"), "dvc add")]
       \/ /\ NoFault
          /\ dvcAdded' = dvcAdded \cup DvcAddRoots(proc[p].changed_paths)
          /\ proc' = [proc EXCEPT ![p] = Stepped(p, [@ EXCEPT !.pc = "s_add"], "dvc add")]

\* snapshot: git add -A
SnapAddAll(p) ==
    /\ proc[p].pc = "s_add"
    /\ UNCHANGED <<commits, head, tags, wt, dvcAdded, dvcPushes, dvcEnv,
                   lockHolder, auditLog, edits, calls, rt, workload>>
    /\ \/ /\ Fault
          /\ UNCHANGED index
          /\ proc' = [proc EXCEPT ![p] =
                         Stepped(p, Raise(@, "CommandError", "git add"), "git add")]
       \/ /\ NoFault
          /\ index' = wt
          /\ proc' = [proc EXCEPT ![p] = Stepped(p, [@ EXCEPT !.pc = "s_commit"], "git add")]

\* snapshot: git commit --allow-empty -m message, then git rev-parse HEAD
SnapCommit(p) ==
    /\ proc[p].pc = "s_commit"
    /\ UNCHANGED <<tags, index, wt, dvcAdded, dvcPushes, dvcEnv,
                   lockHolder, auditLog, edits, calls, rt, workload>>
    /\ \/ /\ Fault
          /\ UNCHANGED <<commits, head>>
          /\ proc' = [proc EXCEPT ![p] =
                         Stepped(p, Raise(@, "CommandError", "git commit"), "git commit")]
       \/ /\ Fault
          /\ commits' = Append(commits, [tree |-> index, parent |-> head,
                                         msg |-> GitStoredMessage(proc[p].message)])
          /\ head' = Len(commits) + 1
          /\ proc' = [proc EXCEPT ![p] =
                         Stepped(p, Raise(@, "CommandError", "git rev-parse"), "git commit")]
       \/ /\ NoFault
          /\ commits' = Append(commits, [tree |-> index, parent |-> head,
                                         msg |-> GitStoredMessage(proc[p].message)])
          /\ head' = Len(commits) + 1
          /\ proc' = [proc EXCEPT ![p] =
                         Stepped(p, [@ EXCEPT !.git_commit = HashText(Len(commits) + 1),
                                              !.pc = "s_tag1"], "git commit")]

\* A snapshot that builds its result right after the tags, without the push.
AfterTagsSkippingPush(rec) == [rec EXCEPT !.pc = "audit", !.result = SnapshotResult(rec)]

\* Where snapshot goes once its tags are applied: the push, or the result.
AfterTags(rec) ==
    IF rec.dvc_status = "handled" /\ dvcEnv.ready
    THEN [rec EXCEPT !.pc = "s_push"]
    ELSE [rec EXCEPT !.pc = "audit", !.result = SnapshotResult(rec)]

\* A stable tag for the two upper levels.
NeedsStableTagWide(level) == level \in {High, Critical}

\* The level that also gets the stable tag
NeedsStableTag(level) == level = Critical

\* A git tag -f: the name is taken over whatever it points to.
GitTagForced(name) == FALSE

\* GitBackend.tag: git tag <name> fails when the name exists already.
GitTagRefuses(name) == name \in TagNames

\* snapshot: git tag pre-change/<id>; git refuses a name that exists
SnapTagPreChange(p) ==
    /\ proc[p].pc = "s_tag1"
    /\ UNCHANGED <<commits, head, index, wt, dvcAdded, dvcPushes, dvcEnv,
                   lockHolder, auditLog, edits, calls, rt, workload>>
    /\ LET name == PreChangeTag(proc[p].snapshot_id)
           tagged == [proc[p] EXCEPT !.tags = <<name>>]
       IN \/ /\ Fault
             /\ name \notin TagNames
             /\ UNCHANGED tags
             /\ proc' = [proc EXCEPT ![p] =
                            Stepped(p, Raise(tagged, "CommandError", "git tag"), "git tag")]
          \/ /\ NoFault
             /\ GitTagRefuses(name)
             /\ UNCHANGED tags
             /\ proc' = [proc EXCEPT ![p] =
                            Stepped(p, Raise(tagged, "CommandError", "git tag"), "git tag")]
          \/ /\ NoFault
             /\ ~GitTagRefuses(name)
             /\ tags' = tags \cup {[name |-> name, commit |-> head]}
             /\ proc' = [proc EXCEPT ![p] =
                            Stepped(p, IF NeedsStableTag(proc[p].args.level)
                                       THEN [tagged EXCEPT !.pc = "s_tag2"]
                                       ELSE AfterTags(tagged), "git tag")]

\* snapshot, level critical: git tag stable/<id>
SnapTagStable(p) ==
    /\ proc[p].pc = "s_tag2"
    /\ UNCHANGED <<commits, head, index, wt, dvcAdded, dvcPushes, dvcEnv,
                   lockHolder, auditLog, edits, calls, rt, workload>>
    /\ LET name == StableTag(proc[p].snapshot_id)
           tagged == [proc[p] EXCEPT !.tags = Append(@, name)]
       IN \/ /\ Fault
             /\ name \notin TagNames
             /\ UNCHANGED tags
             /\ proc' = [proc EXCEPT ![p] =
                            Stepped(p, Raise(tagged, "CommandError", "git tag"), "git tag")]
          \/ /\ NoFault
             /\ GitTagRefuses(name)
             /\ UNCHANGED tags
             /\ proc' = [proc EXCEPT ![p] =
                            Stepped(p, Raise(tagged, "CommandError", "git tag"), "git tag")]
          \/ /\ NoFault
             /\ ~GitTagRefuses(name)
             /\ tags' = tags \cup {[name |-> name, commit |-> head]}
             /\ proc' = [proc EXCEPT ![p] = Stepped(p, AfterTags(tagged), "git tag")]

\* A remote that is never taken for optional and absent.
SkipsPushNever(env) == FALSE

\* config["dvc"]["remote_optional"] and not dvc.has_remote()
SkipsPush(env) == env.optional /\ ~env.remote

\* snapshot: the push of tracked data, unless the remote is optional and absent
SnapPush(p) ==
    /\ proc[p].pc = "s_push"
    /\ UNCHANGED <<commits, head, tags, index, wt, dvcAdded, dvcEnv,
                   lockHolder, auditLog, edits, calls, rt, workload>>
    /\ \/ /\ Fault
          /\ dvcEnv.optional
          /\ UNCHANGED dvcPushes
          /\ proc' = [proc EXCEPT ![p] =
                         Stepped(p, Raise(@, "CommandError", "dvc remote list"),
                                 "dvc remote list")]
       \/ /\ Fault
          /\ ~SkipsPush(dvcEnv)
          /\ UNCHANGED dvcPushes
          /\ proc' = [proc EXCEPT ![p] =
                         Stepped(p, Raise(@, "CommandError", "dvc push"), "dvc push")]
       \/ /\ NoFault
          /\ SkipsPush(dvcEnv)
          /\ UNCHANGED dvcPushes
          /\ proc' = [proc EXCEPT ![p] =
                         Stepped(p, LET rec == [@ EXCEPT !.dvc_status = "handled-no-remote"]
                                    IN [rec EXCEPT !.pc = "audit",
                                                   !.result = SnapshotResult(rec)],
                                 "dvc remote list")]
       \/ /\ NoFault
          /\ ~SkipsPush(dvcEnv)
          /\ dvcPushes' = dvcPushes + 1
          /\ proc' = [proc EXCEPT ![p] =
                         Stepped(p, [@ EXCEPT !.pc = "audit", !.result = SnapshotResult(proc[p])],
                                 "dvc push")]

\* A tracked file whose working-tree content differs from the committed one.
TrackedModified(f) ==
    HeadTree[f] # 0 /\ index[f] = HeadTree[f] /\ wt[f] # 0 /\ wt[f] # HeadTree[f]

\* restore: git status and the dirty-workspace gate
RestStatus(p) ==
    /\ proc[p].pc = "r_status"
    /\ index' = StatusIndex
    /\ UNCHANGED <<commits, head, tags, wt, dvcAdded, dvcPushes, dvcEnv,
                   lockHolder, auditLog, edits, calls, rt, workload>>
    /\ \/ /\ Fault
          /\ proc' = [proc EXCEPT ![p] =
                         Stepped(p, Raise(@, "CommandError", "git status"), "git status")]
       \/ /\ NoFault
          /\ LET status_output == GitStatus
                 seen == [proc[p] EXCEPT !.status_output = status_output,
                                         !.sawDirty = \E f \in Files : FileChanged(f),
                                         !.sawModified = \E f \in Files : TrackedModified(f)]
             IN proc' = [proc EXCEPT ![p] =
                           Stepped(p, IF DirtyGate(status_output, proc[p].args.force)
                                      THEN Raise(seen, "DirtyWorkspaceError", "gate")
                                      ELSE [seen EXCEPT !.pc = "r_checkout"],
                                   "git status")]

\* Where restore goes after the data checkout: the verifier, or the result.
AfterDvcCheckout(rec) ==
    [rec EXCEPT !.pc = IF rec.args.verify THEN "r_verify" ELSE "r_result"]

\* restore: git checkout version
RestCheckout(p) ==
    /\ proc[p].pc = "r_checkout"
    /\ UNCHANGED <<commits, tags, dvcAdded, dvcPushes, dvcEnv,
                   lockHolder, auditLog, edits, calls, rt, workload>>
    /\ LET target == ResolveRev(proc[p].args.version)
       IN \/ /\ Fault
             /\ GitCheckoutOk(target)
             /\ UNCHANGED <<head, index, wt>>
             /\ proc' = [proc EXCEPT ![p] =
                            Stepped(p, Raise(@, "CommandError", "git checkout"),
                                    "git checkout")]
          \/ /\ NoFault
             /\ ~GitCheckoutOk(target)
             /\ UNCHANGED <<head, index, wt>>
             /\ proc' = [proc EXCEPT ![p] =
                            Stepped(p, Raise(@, "CommandError", "git checkout"),
                                    "git checkout")]
          \/ /\ NoFault
             /\ GitCheckoutOk(target)
             /\ head' = target
             /\ index' = IndexAfterCheckout(target)
             /\ wt' = TreeAfterCheckout(target)
             /\ proc' = [proc EXCEPT ![p] =
                            Stepped(p, IF dvcEnv.ready THEN [@ EXCEPT !.pc = "r_dvc"]
                                       ELSE AfterDvcCheckout(@), "git checkout")]

\* restore: dvc checkout, when the data tracker is available and initialized
RestDvcCheckout(p) ==
    /\ proc[p].pc = "r_dvc"
    /\ UNCHANGED <<commits, head, tags, index, wt, dvcAdded, dvcPushes, dvcEnv,
                   lockHolder, auditLog, edits, calls, rt, workload>>
    /\ \/ /\ Fault
          /\ proc' = [proc EXCEPT ![p] =
                         Stepped(p, Raise(@, "CommandError", "dvc checkout"), "dvc checkout")]
       \/ /\ NoFault
          /\ proc' = [proc EXCEPT ![p] =
                         Stepped(p, AfterDvcCheckout([@ EXCEPT !.dvc_status = "handled"]),
                                 "dvc checkout")]

\* Verifier.verify: the required paths that do not exist
MissingPaths == {path \in RequiredPaths : wt[path] = 0}

\* restore: Verifier.verify
RestVerify(p) ==
    /\ proc[p].pc = "r_verify"
    /\ UNCHANGED <<commits, head, tags, index, wt, dvcAdded, dvcPushes, dvcEnv,
                   lockHolder, auditLog, edits, calls, rt, workload>>
    /\ \/ /\ NoFault
          /\ MissingPaths # {}
          /\ proc' = [proc EXCEPT ![p] =
                         Stepped(p, Raise(@, "VerificationError", "required_paths"),
                                 "verify")]
       \/ /\ Fault
          /\ MissingPaths = {}
          /\ proc' = [proc EXCEPT ![p] =
                         Stepped(p, Raise(@, "CommandError", "healthcheck"), "verify")]
       \/ /\ NoFault
          /\ MissingPaths = {}
          /\ proc' = [proc EXCEPT ![p] =
                         Stepped(p, [@ EXCEPT !.verification = "ok", !.pc = "r_result"],
                                 "verify")]

\* restore: git rev-parse HEAD and the result
RestResult(p) ==
    /\ proc[p].pc = "r_result"
    /\ UNCHANGED <<commits, head, tags, index, wt, dvcAdded, dvcPushes, dvcEnv,
                   lockHolder, auditLog, edits, calls, rt, workload>>
    /\ \/ /\ Fault
          /\ proc' = [proc EXCEPT ![p] =
                         Stepped(p, Raise(@, "CommandError", "git rev-parse"),
                                 "git rev-parse")]
       \/ /\ NoFault
          /\ proc' = [proc EXCEPT ![p] =
                         Stepped(p, [@ EXCEPT !.git_commit = HashText(head),
                                              !.result = [restored_to |-> proc[p].args.version,
                                                          git_commit |-> HashText(head),
                                                          dvc_status |-> proc[p].dvc_status,
                                                          verification |-> proc[p].verification],
                                              !.pc = "audit"],
                                 "git rev-parse")]

\* A list that takes the exclusive lock before it reads the tags.
ListTagsLocked(p) ==
    /\ proc[p].pc = "l_tags"
    /\ lockHolder = 0
    /\ lockHolder' = p
    /\ NoFault
    /\ UNCHANGED <<commits, head, tags, index, wt, dvcAdded, dvcPushes, dvcEnv,
                   auditLog, edits, calls, rt, workload>>
    /\ proc' = [proc EXCEPT ![p] =
                   Stepped(p, [@ EXCEPT !.tag_list = GitTagList, !.pc = "l_log"],
                           "git tag --list")]

\* list: git tag --list
ListTags(p) ==
    /\ proc[p].pc = "l_tags"
    /\ UNCHANGED <<commits, head, tags, index, wt, dvcAdded, dvcPushes, dvcEnv,
                   lockHolder, auditLog, edits, calls, rt, workload>>
    /\ \/ /\ Fault
          /\ proc' = [proc EXCEPT ![p] =
                         Stepped(p, Raise(@, "CommandError", "git tag --list"),
                                 "git tag --list")]
       \/ /\ NoFault
          /\ proc' = [proc EXCEPT ![p] =
                         Stepped(p, [@ EXCEPT !.tag_list = GitTagList, !.pc = "l_log"],
                                 "git tag --list")]

\* list: git log, the parse of its records, the filter and the limit
ListLog(p) ==
    /\ proc[p].pc = "l_log"
    /\ UNCHANGED <<commits, head, tags, index, wt, dvcAdded, dvcPushes, dvcEnv,
                   lockHolder, auditLog, edits, calls, rt, workload>>
    /\ \/ /\ Fault
          /\ proc' = [proc EXCEPT ![p] =
                         Stepped(p, Raise(@, "CommandError", "git log"), "git log")]
       \/ /\ NoFault
          /\ proc' = [proc EXCEPT ![p] =
                         Stepped(p, [@ EXCEPT !.result = ListResult(proc[p].tag_list,
                                                            GitLog(ListLimit * 2),
                                                            proc[p].args.filter),
                                              !.parsed = CollectSnapshots(
                                                            GitLog(ListLimit * 2),
                                                            proc[p].tag_list),
                                              !.pc = "audit"], "git log")]

\* diff: the four git diff runs and the result
DiffRun(p) ==
    /\ proc[p].pc = "d_run"
    /\ UNCHANGED <<commits, head, tags, index, wt, dvcAdded, dvcPushes, dvcEnv,
                   lockHolder, auditLog, edits, calls, rt, workload>>
    /\ \/ /\ Fault
          /\ proc' = [proc EXCEPT ![p] =
                         Stepped(p, Raise(@, "CommandError", "git diff"), "git diff")]
       \/ /\ NoFault
          /\ proc' = [proc EXCEPT ![p] =
                         Stepped(p, [@ EXCEPT !.result = DiffResult(proc[p].args.version_a,
                                                                    proc[p].args.version_b),
                                              !.pc = "audit"], "git diff")]

\* The success path of every operation: audit.write(record), then return.
\* A failing write is an exception inside the try block.
AuditOk(p) ==
    /\ proc[p].pc = "audit"
    /\ UNCHANGED <<commits, head, tags, index, wt, dvcAdded, dvcPushes, dvcEnv,
                   lockHolder, edits, calls, rt, workload>>
    /\ \/ /\ Fault
          /\ UNCHANGED auditLog
          /\ proc' = [proc EXCEPT ![p] =
                         Stepped(p, Raise(@, "OSError", "audit.write"), "audit.write")]
       \/ /\ NoFault
          /\ auditLog' = AuditWrite(auditLog, OkRecord(proc[p], proc[p].result))
          /\ proc' = [proc EXCEPT ![p] =
                         Stepped(p, [@ EXCEPT !.wrote = Append(@, OkRecord(proc[p],
                                                                          proc[p].result)),
                                              !.outcome = "ok", !.pc = "exit"],
                                 "audit.write")]

\* The except branch of every operation: audit.write(record), then raise.
\* A failing write raises out of the branch, in place of the bare raise.
Handler(p) ==
    /\ proc[p].pc = "handler"
    /\ UNCHANGED <<commits, head, tags, index, wt, dvcAdded, dvcPushes, dvcEnv,
                   lockHolder, edits, calls, rt, workload>>
    /\ \/ /\ Fault
          /\ UNCHANGED auditLog
          /\ proc' = [proc EXCEPT ![p] =
                         Stepped(p, [@ EXCEPT !.raised = [kind |-> "OSError",
                                                          cmd |-> "audit.write"],
                                              !.auditLost = TRUE,
                                              !.outcome = "raise", !.pc = "exit"],
                                 "audit.write")]
       \/ /\ NoFault
          /\ auditLog' = AuditWrite(auditLog, ErrorRecord(proc[p]))
          /\ proc' = [proc EXCEPT ![p] =
                         Stepped(p, [@ EXCEPT !.wrote = Append(@, ErrorRecord(proc[p])),
                                              !.raised = proc[p].exc,
                                              !.outcome = "raise", !.pc = "exit"],
                                 "audit.write")]

\* A return to the caller that leaves the lock as it is.
ExitHoldingLock(p) ==
    /\ proc[p].pc = "exit"
    /\ proc' = [proc EXCEPT ![p] = IdleProc]
    /\ UNCHANGED <<commits, head, tags, index, wt, dvcAdded, dvcPushes, dvcEnv,
                   lockHolder, auditLog, faults, edits, calls, rt, workload>>

\* Control leaves the with-block of file_lock, whose finally clause unlocks,
\* and goes back to the caller.
Exit(p) ==
    /\ proc[p].pc = "exit"
    /\ lockHolder' = IF proc[p].op \in {"snapshot", "restore"} THEN 0 ELSE lockHolder
    /\ proc' = [proc EXCEPT ![p] = IdleProc]
    /\ UNCHANGED <<commits, head, tags, index, wt, dvcAdded, dvcPushes, dvcEnv,
                   auditLog, faults, edits, calls, rt, workload>>

\* ------------------------------------------------------- specification

RtOff == [phase |-> "off"]

Init ==
    /\ commits = <<[tree |-> FirstTree, parent |-> 0, msg |-> InitMessage],
                   [tree |-> InitTree, parent |-> 1, msg |-> UpdateMessage]>>
    /\ head = Len(commits)
    /\ tags = {}
    /\ index = InitTree
    /\ wt = InitTree
    /\ dvcAdded = {}
    /\ dvcPushes = 0
    /\ dvcEnv \in DvcEnvs
    /\ lockHolder = 0
    /\ proc = [p \in Procs |-> IdleProc]
    /\ auditLog = <<>>
    /\ faults = 0
    /\ edits = 0
    /\ calls = 0
    /\ rt = RtOff
    /\ workload \in {"serial", "concurrent"}

Next ==
    \/ Edit
    \/ \E p \in Procs :
          \/ CallSnapshot(p) \/ CallRestore(p) \/ CallList(p) \/ CallDiff(p)
          \/ AcquireLock(p)
          \/ SnapStatus(p) \/ SnapDvcAdd(p) \/ SnapAddAll(p) \/ SnapCommit(p)
          \/ SnapTagPreChange(p) \/ SnapTagStable(p) \/ SnapPush(p)
          \/ RestStatus(p) \/ RestCheckout(p) \/ RestDvcCheckout(p)
          \/ RestVerify(p) \/ RestResult(p)
          \/ ListTags(p) \/ ListLog(p) \/ DiffRun(p)
          \/ AuditOk(p) \/ Handler(p) \/ Exit(p)

Spec == Init /\ [][Next]_vars

\* The steps of an invocation once it is called, but for its three longest
\* commands: each is an external command, a flock or a file write of its
\* process.
Proceed(p) ==
    \/ AcquireLock(p)
    \/ SnapStatus(p) \/ SnapDvcAdd(p) \/ SnapAddAll(p)
    \/ SnapTagPreChange(p) \/ SnapTagStable(p) \/ SnapPush(p)
    \/ RestStatus(p) \/ RestCheckout(p) \/ RestDvcCheckout(p)
    \/ RestVerify(p) \/ RestResult(p)
    \/ ListTags(p)
    \/ AuditOk(p) \/ Handler(p) \/ Exit(p)

\* git commit, git log and git diff terminate as well. SnapCommit, ListLog
\* and DiffRun are enabled exactly at these positions and are the only steps
\* that leave them, so this is their weak fairness, written without ENABLED.
LongCommandsEnd(p) == []<>(proc[p].pc \notin {"s_commit", "l_log", "d_run"})

\* The start of the runs in which invocations wait for each other: concurrent
\* callers, and serial callers left with one call.
LiveInit ==
    /\ workload \in {"serial", "concurrent"}
    /\ commits = <<[tree |-> FirstTree, parent |-> 0, msg |-> InitMessage],
                   [tree |-> InitTree, parent |-> 1, msg |-> UpdateMessage]>>
    /\ head = Len(commits)
    /\ tags = {}
    /\ index = InitTree
    /\ wt = InitTree
    /\ dvcAdded = {}
    /\ dvcPushes = 0
    /\ dvcEnv \in DvcEnvs
    /\ lockHolder = 0
    /\ proc = [p \in Procs |-> IdleProc]
    /\ auditLog = <<>>
    /\ faults = 0
    /\ edits = 0
    /\ calls = IF workload = "serial" THEN MaxOps - 1 ELSE 0
    /\ rt = RtOff

\* Every external command terminates (run_cmd has a timeout), and a process
\* blocked in flock is woken when the lock is free.
SpecLive ==
    /\ LiveInit /\ [][Next]_vars
    /\ \A p \in Procs : WF_vars(Proceed(p)) /\ LongCommandsEnd(p)

\* ------------------------------------------- round trip of the envelope

\* The longest reason the round trip is run on
MaxReasonLen == 2

\* The characters of those reasons: a letter, the characters JSON escapes,
\* the space and the bracket that closes the level of the header
ReasonChars == {"a", "\"", "\\", " ", "]"}

RECURSIVE TextsUpTo(_)
TextsUpTo(n) ==
    IF n = 0 THEN {<<>>}
    ELSE TextsUpTo(n - 1)
         \cup {Append(t, c) : t \in {u \in TextsUpTo(n - 1) : Len(u) = n - 1}, c \in ReasonChars}

RtReasons == TextsUpTo(MaxReasonLen)

\* The changed-path lists the message is built with
RtChangedPaths == {<<>>, <<PathA, PathConfig>>}

RtInit ==
    /\ commits = <<[tree |-> FirstTree, parent |-> 0, msg |-> InitMessage],
                   [tree |-> InitTree, parent |-> 1, msg |-> UpdateMessage]>>
    /\ head = Len(commits)
    /\ tags = {}
    /\ index = InitTree
    /\ wt = InitTree
    /\ dvcAdded = {}
    /\ dvcPushes = 0
    /\ dvcEnv \in {env \in DvcEnvs : ~env.ready}
    /\ lockHolder = 0
    /\ proc = [p \in Procs |-> IdleProc]
    /\ auditLog = <<>>
    /\ faults = 0
    /\ edits = 0
    /\ calls = 0
    /\ workload = "serial"
    /\ \E reason \in RtReasons, level \in Levels, changed_paths \in RtChangedPaths :
          rt = [phase |-> "input", reason |-> reason, level |-> level,
                changed_paths |-> changed_paths,
                snapshot_id |-> None, message |-> <<>>, stored |-> <<>>,
                log_output |-> <<>>, entries |-> <<>>]

RtFrame ==
    UNCHANGED <<commits, head, tags, index, wt, dvcAdded, dvcPushes, dvcEnv, lockHolder,
                proc, auditLog, faults, edits, calls, workload>>

\* snapshot: generate_snapshot_id and _build_commit_message
RtBuild ==
    /\ rt.phase = "input"
    /\ \E rand \in RandSuffixes :
          rt' = [rt EXCEPT !.phase = "built",
                           !.snapshot_id = SnapshotIdOf(rand),
                           !.message = BuildCommitMessage(SnapshotIdOf(rand), rt.level,
                                                          rt.reason, rt.changed_paths)]
    /\ RtFrame

\* snapshot: git commit -m message
RtCommit ==
    /\ rt.phase = "built"
    /\ rt' = [rt EXCEPT !.phase = "committed", !.stored = GitStoredMessage(rt.message)]
    /\ RtFrame

\* list: git log over the new entry and the ones before it
RtLog ==
    /\ rt.phase = "committed"
    /\ rt' = [rt EXCEPT !.phase = "logged",
                        !.log_output =
                            RunCmdStdout(GitLogFormat(
                                <<<<HashText(Len(commits) + 1), rt.stored>>>>
                                \o [k \in 1..Len(commits) |->
                                      <<HashText(Len(commits) + 1 - k),
                                        commits[Len(commits) + 1 - k].msg>>]))]
    /\ RtFrame

\* list: _collect_snapshots
RtCollect ==
    /\ rt.phase = "logged"
    /\ rt' = [rt EXCEPT !.phase = "parsed",
                        !.entries = CollectSnapshots(rt.log_output, <<>>)]
    /\ RtFrame

RtNext == RtBuild \/ RtCommit \/ RtLog \/ RtCollect

SpecRT == RtInit /\ [][RtNext]_vars

\* ------------------------------------------ data tracking on given paths

\* The changed paths the decision is run on: a file under each data root, an
\* untracked data directory as git status prints it, a directory whose name
\* begins like a data root, and a plain file.
TrackPaths ==
    {PathModel, <<"m", "o", "d", "e", "l", "s", "/">>,
     <<"d", "a", "t", "a", "_", "s", "n", "a", "p", "s", "h", "o", "t", "s", "/", "d">>,
     <<"m", "o", "d", "e", "l", "s", "_", "o", "l", "d", "/", "x">>, PathA}

\* The longest changed-path list the decision is run on
MaxTrackPaths == 2

\* The changed-path lists: git status names a path once.
TrackPathLists ==
    {q \in UNION {[1..n -> TrackPaths] : n \in 0..MaxTrackPaths} :
        \A i \in 1..Len(q), j \in 1..Len(q) : q[i] = q[j] => i = j}

TrackInit ==
    /\ commits = <<[tree |-> FirstTree, parent |-> 0, msg |-> InitMessage],
                   [tree |-> InitTree, parent |-> 1, msg |-> UpdateMessage]>>
    /\ head = Len(commits)
    /\ tags = {}
    /\ index = InitTree
    /\ wt = InitTree
    /\ dvcAdded = {}
    /\ dvcPushes = 0
    /\ dvcEnv \in {env \in DvcEnvs : env.ready /\ env.remote}
    /\ lockHolder = 0
    /\ proc = [p \in Procs |-> IdleProc]
    /\ auditLog = <<>>
    /\ faults = 0
    /\ edits = 0
    /\ calls = 0
    /\ workload = "serial"
    /\ \E changed_paths \in TrackPathLists, existing \in SUBSET DataRoots :
          rt = [phase |-> "parsed", changed_paths |-> changed_paths,
                existing |-> existing, dvc_status |-> "skipped", added |-> {}]

\* snapshot: the decision on data tracking
TrackDecide ==
    /\ rt.phase = "parsed"
    /\ rt' = IF NeedsDvc(rt.changed_paths) /\ dvcEnv.ready
             THEN [rt EXCEPT !.phase = "tracking", !.dvc_status = "handled"]
             ELSE [rt EXCEPT !.phase = "staging"]
    /\ RtFrame

\* snapshot: _dvc_add_paths
TrackAdd ==
    /\ rt.phase = "tracking"
    /\ rt' = [rt EXCEPT !.phase = "staging",
                        !.added = DvcAddRootsOf(rt.changed_paths, rt.existing)]
    /\ RtFrame

TrackNext == TrackDecide \/ TrackAdd

SpecTrack == TrackInit /\ [][TrackNext]_vars

\* ------------------------------------------------------------ properties

\* The invocation of p is about to hand control back to its caller.
AtExit(p) == proc[p].pc = "exit"

\* p is inside the with-block of snapshot or restore.
InCritical(p) ==
    proc[p].op \in {"snapshot", "restore"} /\ proc[p].pc \notin {"idle", "lock"}

C2_ProtectedGateRejects ==
    \A p \in Procs :
        proc[p].op = "snapshot" /\ proc[p].sawProtected =>
            IF Truthy(proc[p].args.reason)
            THEN proc[p].exc.kind # "ProtectedPathError"
            ELSE proc[p].exc.kind = "ProtectedPathError"

\* C3: restore with force=false on a working tree with an uncommitted change
\* raises DirtyWorkspaceError and does not return, for every target version
\* and every value of verify.
C3_DirtyRestoreRejected ==
    \A p \in Procs :
        proc[p].op = "restore" /\ proc[p].sawDirty /\ ~proc[p].args.force =>
            /\ proc[p].exc.kind = "DirtyWorkspaceError"
            /\ proc[p].outcome # "ok"
            /\ AtExit(p) => proc[p].outcome = "raise"

\* A restore without force, with verify set, of a version other than HEAD is
\* rejected on a dirty tree and the caller receives DirtyWorkspaceError.
C3_Witness ==
    \E p \in Procs :
        /\ AtExit(p) /\ proc[p].op = "restore" /\ proc[p].sawDirty
        /\ ~proc[p].args.force /\ proc[p].args.verify
        /\ ResolveRev(proc[p].args.version) # head
        /\ proc[p].raised.kind = "DirtyWorkspaceError"

\* C4: restore with force=true on a working tree with a modified tracked file
\* succeeds, and when it returns the working tree holds the content of the
\* target version. Stated for runs in which no command fails on its own and
\* for calls the verifier does not reject.
C4_ForcedRestoreDiscards ==
    \A p \in Procs :
        /\ AtExit(p) /\ proc[p].op = "restore" /\ proc[p].args.force
        /\ proc[p].sawModified /\ faults = 0
        /\ proc[p].exc.kind # "VerificationError"
        => /\ proc[p].outcome = "ok"
           /\ wt = commits[ResolveRev(proc[p].args.version)].tree

ExpectedTags(snapshot_id, level) ==
    IF level = Critical THEN {PreChangeTag(snapshot_id), StableTag(snapshot_id)}
    ELSE {PreChangeTag(snapshot_id)}

\* C6: a successful snapshot returns and creates exactly pre-change/<id> for
\* the levels normal and high, exactly pre-change/<id> and stable/<id> for
\* critical, <id> being the snapshot_id it returns; it creates no other tag.
C6_ExactTags ==
    \A p \in Procs :
        AtExit(p) /\ proc[p].op = "snapshot" /\ proc[p].outcome = "ok" =>
            LET expected == ExpectedTags(proc[p].result.snapshot_id, proc[p].args.level)
            IN /\ SeqToSet(proc[p].result.tags) = expected
               /\ Len(proc[p].result.tags) = Cardinality(expected)
               /\ proc[p].created = expected
               /\ \A name \in expected :
                     [name |-> name, commit |-> ResolveRev(proc[p].result.git_commit)]
                        \in tags

\* A critical snapshot returns having created its two tags.
C6_Witness ==
    \E p \in Procs :
        /\ AtExit(p) /\ proc[p].op = "snapshot" /\ proc[p].outcome = "ok"
        /\ proc[p].args.level = Critical
        /\ Cardinality(proc[p].created) = Cardinality({Normal, Critical})

\* The history entries that carry the snapshot envelope.
EnvelopeCommits == {c \in 1..Len(commits) : StartsWith(commits[c].msg, EnvelopeMarker)}

\* C7: when no snapshot is in progress, every history entry with the snapshot
\* envelope of id X has the tag pre-change/X, and stable/X too when its level
\* is critical. Stated for runs in which no command fails on its own.
C7_EnvelopeHasTags ==
    (faults = 0 /\ \A p \in Procs : proc[p].op # "snapshot") =>
        \A c \in EnvelopeCommits :
            \A name \in ExpectedTags(HeaderSnapshotId(MessageHeader(commits[c].msg)),
                                     HeaderLevel(MessageHeader(commits[c].msg))) :
                [name |-> name, commit |-> c] \in tags

\* The last audit record the invocation wrote, if any.
LastWrote(p) == proc[p].wrote[Len(proc[p].wrote)]

\* The invocation that returns has written an ok record with its result.
OkAudited(p) ==
    /\ proc[p].wrote # <<>>
    /\ LastWrote(p).status = "ok"
    /\ LastWrote(p).action = proc[p].op
    /\ LastWrote(p).result = proc[p].result

\* The invocation that raises has written an error record with the error.
ErrorAudited(p) ==
    /\ proc[p].wrote # <<>>
    /\ LastWrote(p).status = "error"
    /\ LastWrote(p).action = proc[p].op
    /\ LastWrote(p).error = proc[p].exc

C9_OriginalFailureRaised ==
    \A p \in Procs :
        AtExit(p) /\ proc[p].exc.kind # "none" =>
            proc[p].outcome = "raise" /\ proc[p].raised = proc[p].exc

\* The round trip has parsed one entry that gives back what snapshot was given.
RoundTrips ==
    /\ Len(rt.entries) = 1
    /\ rt.entries[1].reason = rt.reason
    /\ rt.entries[1].level = rt.level
    /\ rt.entries[1].snapshot_id = rt.snapshot_id

\* C10 as stated: for every reason without control characters and every
\* level, the entry snapshot produces is parsed by list into the same reason,
\* level and snapshot id.
C10_RoundTrip == rt.phase = "parsed" => RoundTrips

\* C10, amended: the same for every non-empty reason; the empty reason comes
\* back as "No reason provided".
C10_RoundTripNonEmpty ==
    rt.phase = "parsed" =>
        IF rt.reason # <<>> THEN RoundTrips
        ELSE Len(rt.entries) = 1 /\ rt.entries[1].reason = NoReasonProvided

\* A reason made of a double quote and a backslash has come back unchanged.
C10_Witness ==
    /\ rt.phase = "parsed"
    /\ rt.reason = <<"\"", "\\">>
    /\ RoundTrips

\* The snapshot id in the envelope of history entry c.
EnvelopeId(c) == HeaderSnapshotId(MessageHeader(commits[c].msg))

\* C11: a snapshot on a working tree without changes is not rejected and,
\* like every snapshot that returns, has added exactly one history entry, on
\* top of the former HEAD, whose envelope carries the id it returns, an id no
\* earlier history entry carries.
C11_SnapshotAddsOneEntry ==
    \A p \in Procs :
        /\ proc[p].op = "snapshot" /\ proc[p].snapshot_id # None /\ ~proc[p].sawDirty
           => proc[p].exc.kind \notin {"ProtectedPathError", "DirtyWorkspaceError"}
        /\ AtExit(p) /\ proc[p].op = "snapshot" /\ proc[p].outcome = "ok"
           => /\ Len(commits) = proc[p].histBefore + 1
              /\ ResolveRev(proc[p].result.git_commit) = Len(commits)
              /\ head = Len(commits)
              /\ Len(commits) \in EnvelopeCommits
              /\ EnvelopeId(Len(commits)) = proc[p].result.snapshot_id
              /\ \A c \in EnvelopeCommits :
                    c <= proc[p].histBefore => EnvelopeId(c) # proc[p].result.snapshot_id

\* ------------------------------------------------- list on given histories

\* The snapshot entries of the histories list is run on: a normal snapshot,
\* then a critical one.
ListedLevels == <<Normal, Critical>>

ListedIds == <<SnapshotIdOf(<<"a", "a", "a", "a">>), SnapshotIdOf(<<"a", "a", "a", "b">>)>>

\* The history: the two plain commits, then the first n snapshot entries.
ListedHistory(n) ==
    <<[tree |-> FirstTree, parent |-> 0, msg |-> InitMessage],
      [tree |-> InitTree, parent |-> 1, msg |-> UpdateMessage]>>
    \o [k \in 1..n |->
          [tree |-> InitTree, parent |-> k + 1,
           msg |-> GitStoredMessage(BuildCommitMessage(ListedIds[k], ListedLevels[k],
                                                       <<"f", "i", "x">>, <<>>))]]

\* The tags such a repository may hold: those snapshot creates and the
\* experiment tags an operator adds by hand, any of them possibly deleted.
ListedTags(n) ==
    {[name |-> category \o <<"/">> \o ListedIds[k], commit |-> k + Len(ListedHistory(0))] :
        category \in {FilterStable, FilterPreChange, FilterExperiment}, k \in 1..n}

ListInit ==
    /\ \E n \in 0..Len(ListedIds) :
          /\ commits = ListedHistory(n)
          /\ tags \in SUBSET ListedTags(n)
    /\ head = Len(commits)
    /\ index = InitTree
    /\ wt = InitTree
    /\ dvcAdded = {}
    /\ dvcPushes = 0
    /\ dvcEnv \in {env \in DvcEnvs : ~env.ready}
    /\ lockHolder = 0
    /\ proc = [p \in Procs |-> IdleProc]
    /\ auditLog = <<>>
    /\ faults = 0
    /\ edits = 0
    /\ calls = MaxOps - 1
    /\ rt = RtOff
    /\ workload = "serial"

ListNext ==
    \E p \in Procs :
        \/ CallList(p) \/ ListTags(p) \/ ListLog(p)
        \/ AuditOk(p) \/ Handler(p) \/ Exit(p)

SpecList == ListInit /\ [][ListNext]_vars

\* The entry carries a tag of the category: <category>/<its snapshot id>.
InCategory(entry, category, tag_list) ==
    (category \o <<"/">> \o entry.snapshot_id) \in SeqToSet(tag_list)

C13_VerifyFailureKeepsCheckout ==
    \A p \in Procs :
        /\ AtExit(p) /\ proc[p].op = "restore" /\ proc[p].args.verify
        /\ "git checkout" \in SeqToSet(proc[p].cmds) /\ proc[p].exc.cmd # "git checkout"
        /\ MissingPaths # {} /\ faults = 0
        => /\ proc[p].raised.kind = "VerificationError"
           /\ head = ResolveRev(proc[p].args.version)
           /\ wt = commits[head].tree
           /\ ErrorAudited(p)

ChangedBetween(a, b) == {f \in Files : commits[a].tree[f] # commits[b].tree[f]}

\* The sequence q lists the members of the set S, each once.
Lists(q, S) == SeqToSet(q) = S /\ Len(q) = Cardinality(S)

DataTracked(p) == "dvc add" \in SeqToSet(proc[p].cmds) /\ proc[p].exc.cmd # "dvc add"

\* The snapshot has invoked the push of tracked data.
PushInvoked(p) == "dvc push" \in SeqToSet(proc[p].cmds)

C17_AddsChangedRoots ==
    rt.phase = "staging" /\ rt.dvc_status = "handled" =>
        rt.added = {root \in DataRoots :
                       /\ root \in rt.existing
                       /\ \E path \in SeqToSet(rt.changed_paths) : TopLevel(path) = root}

\* C18: the lock is held only by an invocation inside its with-block, so no
\* invocation that has gone back to its caller, returning or raising, still
\* holds it; and every invocation waiting for the lock eventually holds it.
C18_LockReleased ==
    /\ [](\A p \in Procs : lockHolder = p => InCritical(p))
    /\ \A p \in Procs : (proc[p].pc = "lock") ~> (lockHolder = p)

\* An invocation waits for the lock while its holder is about to leave after
\* the write of its audit record failed.
C18_Witness ==
    \E p \in Procs, q \in Procs :
        /\ proc[p].pc = "lock"
        /\ lockHolder = q /\ AtExit(q) /\ proc[q].exc.cmd = "audit.write"

\* The commands of a snapshot that returns, in the order of the state machine.
StepsInOrder(p) ==
    <<"flock", "git status">>
    \o (IF proc[p].result.dvc_status = "skipped" THEN <<>> ELSE <<"dvc add">>)
    \o <<"git add", "git commit", "git tag">>
    \o (IF proc[p].args.level = Critical THEN <<"git tag">> ELSE <<>>)
    \o (IF proc[p].result.dvc_status = "handled" THEN <<"dvc push">>
        ELSE IF proc[p].result.dvc_status = "handled-no-remote" THEN <<"dvc remote list">>
        ELSE <<>>)
    \o <<"audit.write">>

\* C19: a snapshot holds the lock from its status inspection until it leaves;
\* a tag it created points to the commit it made, a push comes after all its
\* tags, and the one that returns has run status (with the protected-path
\* check), commit, pre-change tag, stable tag (critical only), push and the
\* write of the success record in this order, the lock still held.
C19_StepsInOrder ==
    \A p \in Procs :
        proc[p].op = "snapshot" =>
            /\ proc[p].pc \notin {"idle", "lock"} => lockHolder = p
            /\ \A tg \in tags : tg.name \in proc[p].created =>
                  /\ tg.commit > proc[p].histBefore
                  /\ EnvelopeId(tg.commit) = proc[p].snapshot_id
            /\ PushInvoked(p) =>
                  proc[p].created = ExpectedTags(proc[p].snapshot_id, proc[p].args.level)
            /\ AtExit(p) /\ proc[p].outcome = "ok" =>
                  /\ proc[p].cmds = StepsInOrder(p)
                  /\ lockHolder = p

\* A critical snapshot with tracked data has returned after nine steps: both
\* tags, then the push, then the success record.
C19_Witness ==
    \E p \in Procs :
        /\ AtExit(p) /\ proc[p].op = "snapshot" /\ proc[p].outcome = "ok"
        /\ proc[p].args.level = Critical
        /\ PushInvoked(p)
        /\ Len(proc[p].cmds) = 9
        /\ OkAudited(p)

\* The paths git status reports: each changed tracked file, and each
\* untracked file under the name git prints for it.
ReportedPaths ==
    {f \in Files : HasTrackedEntry(f)}
    \cup {UntrackedName(f) : f \in {g \in Files : IsUntracked(g)}}

\* C20: the changed-path list a snapshot computes holds exactly the paths git
\* status reports, whatever the status code of a line and its place in the
\* output.
C20_ChangedPathsExact ==
    \A p \in Procs :
        proc[p].op = "snapshot" /\ proc[p].pc \in {"s_dvcadd", "s_add"} =>
            SeqToSet(proc[p].changed_paths) = ReportedPaths

\* ------------------------------------------- list after restore

\* The tags the snapshots of ListedHistory(n) created: pre-change for each,
\* stable for the critical ones.
SnapshotTags(n) ==
    {tg \in ListedTags(n) :
        \/ StartsWith(tg.name, FilterPreChange)
        \/ /\ StartsWith(tg.name, FilterStable)
           /\ ListedLevels[tg.commit - Len(ListedHistory(0))] = Critical}

\* A repository in which fewer snapshots than the list limit have succeeded,
\* HEAD on the last of them and the working tree clean.
RestoredInit ==
    /\ \E n \in 1..Len(ListedIds) :
          /\ n < ListLimit
          /\ commits = ListedHistory(n)
          /\ tags = SnapshotTags(n)
    /\ head = Len(commits)
    /\ index = InitTree
    /\ wt = InitTree
    /\ dvcAdded = {}
    /\ dvcPushes = 0
    /\ dvcEnv \in DvcEnvs
    /\ lockHolder = 0
    /\ proc = [p \in Procs |-> IdleProc]
    /\ auditLog = <<>>
    /\ faults = 0
    /\ edits = 0
    /\ calls = 0
    /\ rt = RtOff
    /\ workload = "serial"

\* restore and list, called one after the other in any order
RestoredNext ==
    \E p \in Procs :
        \/ CallRestore(p) \/ CallList(p)
        \/ AcquireLock(p)
        \/ RestStatus(p) \/ RestCheckout(p) \/ RestDvcCheckout(p)
        \/ RestVerify(p) \/ RestResult(p)
        \/ ListTags(p) \/ ListLog(p)
        \/ AuditOk(p) \/ Handler(p) \/ Exit(p)

SpecRestored == RestoredInit /\ [][RestoredNext]_vars

\* The ids of the snapshots created so far: the entries on top of the two
\* plain commits.
CreatedIds == {EnvelopeId(c) : c \in (Len(ListedHistory(0)) + 1)..Len(commits)}

\* C22: with fewer snapshots than the list limit, list(filter=all) returns
\* every snapshot that was ever created, whatever version was restored before.
C22_RestoreKeepsListed ==
    \A p \in Procs :
        AtExit(p) /\ proc[p].op = "list" /\ proc[p].outcome = "ok"
                  /\ proc[p].args.filter = FilterAll =>
            CreatedIds \subseteq
                {proc[p].result.snapshots[i].snapshot_id :
                    i \in DOMAIN proc[p].result.snapshots}

\* The snapshot p returns has made the commit it returns and has itself
\* created the pre-change tag of the id it returns, which points to that commit.
ReturnsOwnLabel(p) ==
    AtExit(p) /\ proc[p].op = "snapshot" /\ proc[p].outcome = "ok" =>
        LET c == ResolveRev(proc[p].result.git_commit)
            name == PreChangeTag(proc[p].result.snapshot_id)
        IN  /\ c > proc[p].histBefore
            /\ [name |-> name, commit |-> c] \in tags
            /\ name \in proc[p].created

\* A tag name points to one commit.
LabelsDistinct ==
    \A t1, t2 \in tags : t1.name = t2.name => t1.commit = t2.commit

\* C23: no two snapshots that return successfully return the same id, even
\* when the generator draws an id again. Tags are never removed nor moved, a
\* snapshot that returns has made a commit of its own and has itself created
\* the pre-change tag of the id it returns, pointing to that commit, and a tag
\* name points to one commit only.
C23_DistinctIds ==
    [][/\ tags \subseteq tags'
       /\ \A p \in Procs : ReturnsOwnLabel(p)'
       /\ LabelsDistinct'
      ]_vars

\* Reached: after a snapshot that succeeded, a second one has drawn the same
\* id and has failed on its pre-change tag, no command having been made to fail.
C23_Witness ==
    \E p \in Procs :
        /\ AtExit(p) /\ proc[p].op = "snapshot" /\ proc[p].outcome = "raise"
        /\ proc[p].exc.cmd = "git tag"
        /\ faults = 0
        /\ \E tg \in tags :
              /\ tg.name = PreChangeTag(proc[p].snapshot_id)
              /\ tg.commit <= proc[p].histBefore

\* ------------------------------- bookkeeping inside the repository

\* A lock file and an audit directory configured inside the working tree.
LockFile == <<".", "l", "o", "c", "k">>
AuditDir == <<"a", "u", "d", "i", "t", "/">>

MaxInsideCalls == 3

\* GitBackend.status on a working tree that holds the bookkeeping paths. A
\* path that exists and is not in HEAD's tree is reported as untracked: the
\* lock file, and the audit files, as the whole directory while none of its
\* files is tracked. An ignore rule for the two paths hides them.
BookkeepingStatus(bk) ==
    LET tree == bk.trees[bk.head]
        names == IF bk.ignored THEN {}
                 ELSE (IF bk.lock /\ ~tree.lock THEN {LockFile} ELSE {})
                      \cup (IF bk.present \subseteq tree.audit THEN {}
                            ELSE IF tree.audit = {} THEN {AuditDir}
                            ELSE {AuditDir \o <<Digits[k + 1]>> :
                                     k \in bk.present \ tree.audit})
        untracked == SortedSeq(names)
    IN RunCmdStdout(GitStatusRaw
                    \o Join([k \in 1..Len(untracked) |->
                               StatusLine(<<"?", "?">>, untracked[k])], <<>>))

\* A clean repository before the first invocation: one commit without any
\* bookkeeping path, no lock file yet, an empty audit directory, with or
\* without an ignore rule for the two.
InsideInit ==
    /\ commits = <<[tree |-> FirstTree, parent |-> 0, msg |-> InitMessage],
                   [tree |-> InitTree, parent |-> 1, msg |-> UpdateMessage]>>
    /\ head = Len(commits)
    /\ tags = {}
    /\ index = InitTree
    /\ wt = InitTree
    /\ dvcAdded = {}
    /\ dvcPushes = 0
    /\ dvcEnv \in {env \in DvcEnvs : ~env.ready}
    /\ lockHolder = 0
    /\ proc = [p \in Procs |-> IdleProc]
    /\ auditLog = <<>>
    /\ faults = 0
    /\ edits = 0
    /\ calls = 0
    /\ workload = "serial"
    /\ \E ignored \in BOOLEAN :
          rt = [phase |-> "idle", ignored |-> ignored,
                lock |-> FALSE, present |-> {}, written |-> 0,
                trees |-> <<[lock |-> FALSE, audit |-> {}]>>, head |-> 1,
                calls |-> 0, op |-> "none", force |-> FALSE, version |-> 1,
                status_output |-> <<>>, exc |-> "none", previous |-> "none"]

\* snapshot or restore is called: file_lock makes the lock file's directory
\* and opens the lock file for writing, which creates it, before the try block.
InsideEnter ==
    /\ rt.phase = "idle"
    /\ rt.calls < MaxInsideCalls
    /\ \E op \in {"snapshot", "restore"}, force \in BOOLEAN, version \in 1..Len(rt.trees) :
          /\ op = "snapshot" => ~force /\ version = rt.head
          /\ rt' = [rt EXCEPT !.phase = "status", !.op = op, !.force = force,
                              !.version = version, !.calls = @ + 1,
                              !.exc = "none", !.status_output = <<>>,
                              !.lock = TRUE]
    /\ RtFrame

\* The status inspection, and for restore the dirty-workspace gate.
InsideStatus ==
    /\ rt.phase = "status"
    /\ LET status_output == BookkeepingStatus(rt)
       IN rt' = IF rt.op = "restore" /\ DirtyGate(status_output, rt.force)
                THEN [rt EXCEPT !.status_output = status_output,
                                !.exc = "DirtyWorkspaceError", !.phase = "audit"]
                ELSE [rt EXCEPT !.status_output = status_output, !.phase = "body"]
    /\ RtFrame

\* snapshot: git add -A and git commit take in every path that is not ignored,
\* the lock file and the audit files present included.
\* restore: git checkout of the version. Git refuses to overwrite an untracked
\* file; otherwise it removes the files HEAD tracks and the version does not,
\* and writes the files of the version.
InsideBody ==
    /\ rt.phase = "body"
    /\ LET from == rt.trees[rt.head]
           to == rt.trees[rt.version]
           refused == \/ rt.lock /\ ~from.lock /\ to.lock
                      \/ (to.audit \ from.audit) \cap rt.present # {}
       IN rt' = IF rt.op = "snapshot"
                THEN [rt EXCEPT !.trees = Append(@, IF rt.ignored THEN from
                                                    ELSE [lock |-> rt.lock,
                                                          audit |-> rt.present]),
                                !.head = Len(rt.trees) + 1,
                                !.phase = "audit"]
                ELSE IF refused
                THEN [rt EXCEPT !.exc = "CommandError", !.phase = "audit"]
                ELSE [rt EXCEPT !.present = (@ \ from.audit) \cup to.audit,
                                !.lock = (@ /\ ~from.lock) \/ to.lock,
                                !.head = rt.version,
                                !.phase = "audit"]
    /\ RtFrame

\* audit.write on either path: the record goes to a file of its own, named by
\* its digest; then the operation leaves.
InsideAudit ==
    /\ rt.phase = "audit"
    /\ rt' = [rt EXCEPT !.written = @ + 1, !.present = @ \cup {rt.written + 1},
                        !.phase = "idle",
                        !.previous = IF rt.exc = "none" THEN rt.op ELSE "failed"]
    /\ RtFrame

InsideNext == InsideEnter \/ InsideStatus \/ InsideBody \/ InsideAudit

SpecInside == InsideInit /\ [][InsideNext]_vars

\* C21: the audit log is append-only: after any sequence of operations every
\* audit record written earlier is still present in its file; a write adds the
\* record's line to the file named by its digest and nothing removes a file.
C21_RecordsKept == rt.present = 1..rt.written

\* C24: with the lock file and the audit directory inside the repository and
\* no change by the user, a restore with force=false that follows a successful
\* snapshot is not rejected with DirtyWorkspaceError.
C24_BookkeepingStaysClean ==
    ~(/\ rt.phase = "audit"
      /\ rt.op = "restore" /\ ~rt.force
      /\ rt.previous = "snapshot"
      /\ rt.exc = "DirtyWorkspaceError")

====
